---------------------------- MODULE Spec2Model ----------------------------
(***************************************************************************)
(* Model of the sheet-cut optimizer of src/src/App.jsx: the memoised       *)
(* layout computation rawLayout (validation, calculateFit, the two         *)
(* candidates, the optimal key) and the component state around it          *)
(* (the eight text inputs, displayLayout, isDirty, currentLayoutKey) with  *)
(* the handlers handleCalculate, handleInvert and handleRevert.            *)
(*                                                                         *)
(* Numbers.  The program computes in IEEE-754 binary floating point        *)
(* (53-bit significand, round to nearest, ties to even).  The model keeps  *)
(* that arithmetic and shrinks only the width of the significand to        *)
(* MantBits bits, so that every value stays within the integers of the    *)
(* model checker and a rounding step occurs at small lengths:             *)
(*   - a length is a whole number of model units (1 unit = 1/8 inch, so    *)
(*     the default inputs 8.5, 11, 17, 22, 0.375, 0.125, 0.375, 0.5 are    *)
(*     68, 88, 136, 176, 3, 1, 3, 4); sums and differences of lengths are  *)
(*     rounded to MantBits significant bits by Round;                      *)
(*   - a quotient is kept in units of 2^-Frac and rounded to MantBits      *)
(*     significant bits by RoundQ;                                         *)
(*   - Number.EPSILON is the gap between 1 and the next number,            *)
(*     2^(1-MantBits), as it is 2^-52 for a 53-bit significand.            *)
(***************************************************************************)
EXTENDS Integers, FiniteSets, TLC

(* Width of the significand of the model's floating-point numbers. *)
MantBits == 8

(* Largest piece count N the exact-fit and maximal-fit statements range over. *)
MaxFitN == 6

---------------------------------------------------------------------------
(* Floating-point arithmetic                                               *)

Pow2(n) == 2 ^ n

RECURSIVE BitLen(_)
BitLen(k) == IF k <= 0 THEN 0 ELSE 1 + BitLen(k \div 2)

(* Number of fractional bits a quotient is kept with. *)
Frac == 2 * MantBits

(* The spacing of the floating-point numbers around magnitude k. *)
Ulp(k) == IF k < Pow2(MantBits) THEN 1 ELSE Pow2(BitLen(k) - MantBits)

(* a/b (a >= 0, b > 0) rounded to the nearest multiple of u, ties to the  *)
(* even multiple.                                                         *)
NearestEven(a, b, u) ==
    LET m == a \div (b * u)
        r == a - m * b * u
    IN  IF 2 * r < b * u THEN m * u
        ELSE IF 2 * r > b * u THEN (m + 1) * u
        ELSE IF m % 2 = 0 THEN m * u ELSE (m + 1) * u

(* The floating-point number nearest to the whole number k: the result of *)
(* a +, a - or a parse whose exact value is k.                            *)
Round(k) ==
    IF k < 0 THEN -NearestEven(-k, 1, Ulp(-k)) ELSE NearestEven(k, 1, Ulp(k))

(* x / y of two lengths (x >= 0, y > 0): the floating-point number        *)
(* nearest to the exact quotient, in units of 2^-Frac.                    *)
RoundQ(x, y) ==
    LET a == x * Pow2(Frac)
    IN  NearestEven(a, y, Ulp(a \div y))

(* Number.EPSILON in units of 2^-Frac. *)
EPSILON == Pow2(Frac - (MantBits - 1))

(* Math.floor of a number kept in units of 2^-Frac. *)
MathFloor(q) == q \div Pow2(Frac)

MathMax(a, b) == IF a >= b THEN a ELSE b

---------------------------------------------------------------------------
(* Raw inputs: the text of an input field                                 *)

(* The text of a field is either a decimal numeral (of value v units),    *)
(* the same numeral written with a trailing zero ("0.3750" for "0.375"),  *)
(* or text parseFloat cannot read (the empty field).                      *)
Num(v) == [numeric |-> TRUE, v |-> v, padded |-> FALSE]
Padded(v) == [numeric |-> TRUE, v |-> v, padded |-> TRUE]
NotNumeric == [numeric |-> FALSE, v |-> 0, padded |-> FALSE]

(* parseFloat: the nearest floating-point number, or NaN. *)
parseFloat(s) ==
    IF s.numeric THEN [nan |-> FALSE, v |-> Round(s.v)]
    ELSE [nan |-> TRUE, v |-> 0]

(* x || 0 : NaN and 0 are falsy. *)
OrZero(x) == IF x.nan \/ x.v = 0 THEN 0 ELSE x.v

(* Mutant of Coerce: Math.abs where the code has Math.max(0, .). *)
Coerce_Abs(s) ==
    LET x == OrZero(parseFloat(s)) IN IF x < 0 THEN -x ELSE x

(* Math.max(0, parseFloat(text) || 0) *)
Coerce(s) == MathMax(0, OrZero(parseFloat(s)))

---------------------------------------------------------------------------
(* rawLayout                                                              *)

NULL == "null"
ErrDimensions == "Las dimensiones deben ser positivas."
(* The accents of the message are dropped. *)
ErrMargins == "Los margenes o pinza/cola son demasiado grandes para el pliego."

(* Mutant of dimensionsInvalid: the sheet's dimensions are not checked. *)
dimensionsInvalid_PieceOnly(CW, CH, SW, SH) ==
    CW <= 0 \/ CH <= 0

(* CW <= 0 || CH <= 0 || SW <= 0 || SH <= 0 *)
dimensionsInvalid(CW, CH, SW, SH) ==
    CW <= 0 \/ CH <= 0 \/ SW <= 0 \/ SH <= 0

(* Mutant of marginsTooLarge: > where the code has >=. *)
marginsTooLarge_Strict(SW, SH, LM, G_calc, T_calc) ==
    Round(G_calc + T_calc) > SH \/ 2 * LM > SW

(* G_calc + T_calc >= SH || 2 * LM >= SW *)
marginsTooLarge(SW, SH, LM, G_calc, T_calc) ==
    Round(G_calc + T_calc) >= SH \/ 2 * LM >= SW

(* Mutant of errorResult: the echoed grip and tail are exchanged. *)
errorResult_SwappedClearances(message, SW, SH, LM, GT, G_calc, T_calc) ==
    [optimalKey |-> NULL, error |-> message,
     sheetW |-> SW, sheetH |-> SH, grip |-> G_calc,
     lateralMargin |-> LM, gutter |-> GT, tail |-> T_calc]

(* The object both validation branches return. *)
errorResult(message, SW, SH, LM, GT, G_calc, T_calc) ==
    [optimalKey |-> NULL, error |-> message,
     sheetW |-> SW, sheetH |-> SH, grip |-> T_calc,
     lateralMargin |-> LM, gutter |-> GT, tail |-> G_calc]

(* Mutant of effectiveW: the lateral margin is taken off one side only. *)
effectiveW_OneSide(SW, LM) == Round(SW - LM)

(* effectiveW = SW - 2 * LM *)
effectiveW(SW, LM) == Round(SW - 2 * LM)

(* effectiveH = SH - G_calc - T_calc *)
effectiveH(SH, G_calc, T_calc) == Round(Round(SH - G_calc) - T_calc)

calculateFit(usableLength, pieceLength, gutterLength) ==
    IF Round(pieceLength + gutterLength) <= 0 THEN 0
    ELSE MathFloor(Round(RoundQ(Round(usableLength + gutterLength),
                                Round(pieceLength + gutterLength)) + EPSILON))

(* Mutant of layoutA: the total adds columns and rows. *)
layoutA_TotalIsSum(CW, CH, GT, usableW, usableH) ==
    LET fitW1 == calculateFit(usableW, CW, GT)
        fitH1 == calculateFit(usableH, CH, GT)
        total1 == fitW1 + fitH1
    IN  [total |-> total1, fitW |-> fitW1, fitH |-> fitH1,
         rotated |-> FALSE, cutW |-> CW, cutH |-> CH]

(* layoutA: the piece as given (W x H). *)
layoutA(CW, CH, GT, usableW, usableH) ==
    LET fitW1 == calculateFit(usableW, CW, GT)
        fitH1 == calculateFit(usableH, CH, GT)
        total1 == fitW1 * fitH1
    IN  [total |-> total1, fitW |-> fitW1, fitH |-> fitH1,
         rotated |-> FALSE, cutW |-> CW, cutH |-> CH]

(* layoutB: the piece turned by 90 degrees (H x W). *)
layoutB(CW, CH, GT, usableW, usableH) ==
    LET fitW2 == calculateFit(usableW, CH, GT)
        fitH2 == calculateFit(usableH, CW, GT)
        total2 == fitW2 * fitH2
    IN  [total |-> total2, fitW |-> fitW2, fitH |-> fitH2,
         rotated |-> TRUE, cutW |-> CH, cutH |-> CW]

(* Mutant of selectOptimalKey: > where the code has >=, so a tie goes to B. *)
selectOptimalKey_Strict(total1, total2) == IF total1 > total2 THEN "A" ELSE "B"

(* optimalKey = total1 >= total2 ? 'A' : 'B' *)
selectOptimalKey(total1, total2) == IF total1 >= total2 THEN "A" ELSE "B"

(* The body of the useMemo callback, as a function of the eight texts. *)
computeRawLayout(cw, ch, sw, sh, lm, gt, tl, gr) ==
    LET CW == Coerce(cw)
        CH == Coerce(ch)
        SW == Coerce(sw)
        SH == Coerce(sh)
        LM == Coerce(lm)
        T_calc == Coerce(gr)
        G_calc == Coerce(tl)
        GT == Coerce(gt)
        usableW == effectiveW(SW, LM)
        usableH == effectiveH(SH, G_calc, T_calc)
        A == layoutA(CW, CH, GT, usableW, usableH)
        B == layoutB(CW, CH, GT, usableW, usableH)
    IN  IF dimensionsInvalid(CW, CH, SW, SH)
        THEN errorResult(ErrDimensions, SW, SH, LM, GT, G_calc, T_calc)
        ELSE IF marginsTooLarge(SW, SH, LM, G_calc, T_calc)
        THEN errorResult(ErrMargins, SW, SH, LM, GT, G_calc, T_calc)
        ELSE [layoutA |-> A,
              layoutB |-> B,
              optimalKey |-> selectOptimalKey(A.total, B.total),
              sheetW |-> SW, sheetH |-> SH,
              grip |-> Coerce(gr),
              lateralMargin |-> LM,
              gutter |-> GT,
              tail |-> Coerce(tl),
              error |-> NULL]

---------------------------------------------------------------------------
(* Component state                                                        *)

VARIABLES cutWidth, cutHeight, sheetWidth, sheetHeight,
          lateralMargin, gutter, tail, grip,
          rawLayout, displayLayout, isDirty, currentLayoutKey

inputs == <<cutWidth, cutHeight, sheetWidth, sheetHeight,
            lateralMargin, gutter, tail, grip>>

vars == <<cutWidth, cutHeight, sheetWidth, sheetHeight,
          lateralMargin, gutter, tail, grip,
          rawLayout, displayLayout, isDirty, currentLayoutKey>>

(* displayLayout = null *)
NoLayout == [null |-> TRUE]

HasField(obj, name) == name \in DOMAIN obj

(* The fields every handler copies from rawLayout onto the display. *)
Echo(raw) ==
    [sheetW |-> raw.sheetW, sheetH |-> raw.sheetH,
     grip |-> raw.grip, lateralMargin |-> raw.lateralMargin,
     gutter |-> raw.gutter, tail |-> raw.tail, error |-> raw.error]

(* { ...rawLayout[`layout${key}`], sheetW: ..., error: ... } : spreading  *)
(* undefined adds no field.                                               *)
SpreadCandidate(raw, key) ==
    IF key = "A" /\ HasField(raw, "layoutA") THEN Echo(raw) @@ raw.layoutA
    ELSE IF key = "B" /\ HasField(raw, "layoutB") THEN Echo(raw) @@ raw.layoutB
    ELSE Echo(raw)

(* layout && layout.total > 0 : the canvas and the two orientation        *)
(* buttons are rendered.                                                  *)
OrientationButtonsRendered ==
    /\ displayLayout # NoLayout
    /\ HasField(displayLayout, "total")
    /\ displayLayout.total > 0

handleCalculate ==
    /\ isDirty
    /\ IF rawLayout.error # NULL
       THEN displayLayout' = [total |-> 0, fitW |-> 0, fitH |-> 0] @@ rawLayout
       ELSE displayLayout' =
                SpreadCandidate(rawLayout,
                                IF rawLayout.optimalKey = "A" THEN "A" ELSE "B")
    /\ currentLayoutKey' = "optimal"
    /\ isDirty' = FALSE
    /\ UNCHANGED <<inputs, rawLayout>>

(* Mutant of handleInvert: the key is not toggled. *)
handleInvert_KeyNotToggled ==
    /\ OrientationButtonsRendered
    /\ displayLayout # NoLayout
    /\ LET currentIsOptimal == currentLayoutKey = "optimal"
           keyToDisplay == IF currentIsOptimal
                           THEN (IF rawLayout.optimalKey = "A" THEN "B" ELSE "A")
                           ELSE rawLayout.optimalKey
       IN  /\ displayLayout' = SpreadCandidate(rawLayout, keyToDisplay)
           /\ currentLayoutKey' = currentLayoutKey
    /\ UNCHANGED <<inputs, rawLayout, isDirty>>

handleInvert ==
    /\ OrientationButtonsRendered
    /\ displayLayout # NoLayout
    /\ LET currentIsOptimal == currentLayoutKey = "optimal"
           keyToDisplay == IF currentIsOptimal
                           THEN (IF rawLayout.optimalKey = "A" THEN "B" ELSE "A")
                           ELSE rawLayout.optimalKey
       IN  /\ displayLayout' = SpreadCandidate(rawLayout, keyToDisplay)
           /\ currentLayoutKey' = IF currentIsOptimal THEN "inverted" ELSE "optimal"
    /\ UNCHANGED <<inputs, rawLayout, isDirty>>

handleRevert ==
    /\ OrientationButtonsRendered
    /\ currentLayoutKey # "optimal"
    /\ displayLayout # NoLayout
    /\ displayLayout' =
           SpreadCandidate(rawLayout,
                           IF rawLayout.optimalKey = "A" THEN "A" ELSE "B")
    /\ currentLayoutKey' = "optimal"
    /\ UNCHANGED <<inputs, rawLayout, isDirty>>

(* onChange of one input field: the setter stores the new text, the       *)
(* render that follows recomputes the memoised rawLayout and the effect   *)
(* on the inputs sets isDirty.  A text equal to the stored one changes    *)
(* no state, so nothing is re-rendered.                                   *)
setCutWidth(v) ==
    /\ v # cutWidth
    /\ cutWidth' = v
    /\ rawLayout' = computeRawLayout(v, cutHeight, sheetWidth, sheetHeight,
                                     lateralMargin, gutter, tail, grip)
    /\ isDirty' = TRUE
    /\ UNCHANGED <<cutHeight, sheetWidth, sheetHeight, lateralMargin, gutter,
                   tail, grip, displayLayout, currentLayoutKey>>

setCutHeight(v) ==
    /\ v # cutHeight
    /\ cutHeight' = v
    /\ rawLayout' = computeRawLayout(cutWidth, v, sheetWidth, sheetHeight,
                                     lateralMargin, gutter, tail, grip)
    /\ isDirty' = TRUE
    /\ UNCHANGED <<cutWidth, sheetWidth, sheetHeight, lateralMargin, gutter,
                   tail, grip, displayLayout, currentLayoutKey>>

setSheetWidth(v) ==
    /\ v # sheetWidth
    /\ sheetWidth' = v
    /\ rawLayout' = computeRawLayout(cutWidth, cutHeight, v, sheetHeight,
                                     lateralMargin, gutter, tail, grip)
    /\ isDirty' = TRUE
    /\ UNCHANGED <<cutWidth, cutHeight, sheetHeight, lateralMargin, gutter,
                   tail, grip, displayLayout, currentLayoutKey>>

setSheetHeight(v) ==
    /\ v # sheetHeight
    /\ sheetHeight' = v
    /\ rawLayout' = computeRawLayout(cutWidth, cutHeight, sheetWidth, v,
                                     lateralMargin, gutter, tail, grip)
    /\ isDirty' = TRUE
    /\ UNCHANGED <<cutWidth, cutHeight, sheetWidth, lateralMargin, gutter,
                   tail, grip, displayLayout, currentLayoutKey>>

setLateralMargin(v) ==
    /\ v # lateralMargin
    /\ lateralMargin' = v
    /\ rawLayout' = computeRawLayout(cutWidth, cutHeight, sheetWidth, sheetHeight,
                                     v, gutter, tail, grip)
    /\ isDirty' = TRUE
    /\ UNCHANGED <<cutWidth, cutHeight, sheetWidth, sheetHeight, gutter,
                   tail, grip, displayLayout, currentLayoutKey>>

setGutter(v) ==
    /\ v # gutter
    /\ gutter' = v
    /\ rawLayout' = computeRawLayout(cutWidth, cutHeight, sheetWidth, sheetHeight,
                                     lateralMargin, v, tail, grip)
    /\ isDirty' = TRUE
    /\ UNCHANGED <<cutWidth, cutHeight, sheetWidth, sheetHeight, lateralMargin,
                   tail, grip, displayLayout, currentLayoutKey>>

setTail(v) ==
    /\ v # tail
    /\ tail' = v
    /\ rawLayout' = computeRawLayout(cutWidth, cutHeight, sheetWidth, sheetHeight,
                                     lateralMargin, gutter, v, grip)
    /\ isDirty' = TRUE
    /\ UNCHANGED <<cutWidth, cutHeight, sheetWidth, sheetHeight, lateralMargin,
                   gutter, grip, displayLayout, currentLayoutKey>>

setGrip(v) ==
    /\ v # grip
    /\ grip' = v
    /\ rawLayout' = computeRawLayout(cutWidth, cutHeight, sheetWidth, sheetHeight,
                                     lateralMargin, gutter, tail, v)
    /\ isDirty' = TRUE
    /\ UNCHANGED <<cutWidth, cutHeight, sheetWidth, sheetHeight, lateralMargin,
                   gutter, tail, displayLayout, currentLayoutKey>>

---------------------------------------------------------------------------
(* The component: the state after construction and the user's steps       *)

(* The texts the user types into each field (the first of each set is the *)
(* useState default).                                                     *)
CutWidthEdits == {Num(68), NotNumeric}
CutHeightEdits == {Num(88), Num(68)}
SheetWidthEdits == {Num(136), Num(80)}
SheetHeightEdits == {Num(176), Num(7)}
LateralMarginEdits == {Num(3), Padded(3)}
GutterEdits == {Num(1), Padded(1)}
TailEdits == {Num(3), Padded(3)}
GripEdits == {Num(4), Num(-4)}

Init ==
    /\ cutWidth = Num(68)
    /\ cutHeight = Num(88)
    /\ sheetWidth = Num(136)
    /\ sheetHeight = Num(176)
    /\ lateralMargin = Num(3)
    /\ gutter = Num(1)
    /\ tail = Num(3)
    /\ grip = Num(4)
    /\ rawLayout = computeRawLayout(cutWidth, cutHeight, sheetWidth, sheetHeight,
                                    lateralMargin, gutter, tail, grip)
    /\ displayLayout = NoLayout
    /\ isDirty = TRUE
    /\ currentLayoutKey = "optimal"

Next ==
    \/ \E v \in CutWidthEdits : setCutWidth(v)
    \/ \E v \in CutHeightEdits : setCutHeight(v)
    \/ \E v \in SheetWidthEdits : setSheetWidth(v)
    \/ \E v \in SheetHeightEdits : setSheetHeight(v)
    \/ \E v \in LateralMarginEdits : setLateralMargin(v)
    \/ \E v \in GutterEdits : setGutter(v)
    \/ \E v \in TailEdits : setTail(v)
    \/ \E v \in GripEdits : setGrip(v)
    \/ handleCalculate
    \/ handleInvert
    \/ handleRevert

Spec == Init /\ [][Next]_vars

---------------------------------------------------------------------------
(* The layout computation on its own: any request, then the handlers      *)

CutWidthTexts == {Num(0), Num(1), Num(68), Num(100), Num(128), NotNumeric}
CutHeightTexts == {Num(-88), Num(68), Num(88)}
SheetWidthTexts == {NotNumeric, Num(99), Num(136), Num(213), Num(255)}
SheetHeightTexts == {NotNumeric, Num(0), Num(7), Num(176)}
LateralMarginTexts == {Num(-3), Num(3), Num(68)}
GutterTexts == {NotNumeric, Num(1), Num(52)}
TailTexts == {NotNumeric, Num(3)}
GripTexts == {Num(-4), Num(4)}

InitCompute ==
    /\ cutWidth \in CutWidthTexts
    /\ cutHeight \in CutHeightTexts
    /\ sheetWidth \in SheetWidthTexts
    /\ sheetHeight \in SheetHeightTexts
    /\ lateralMargin \in LateralMarginTexts
    /\ gutter \in GutterTexts
    /\ tail \in TailTexts
    /\ grip \in GripTexts
    /\ rawLayout = computeRawLayout(cutWidth, cutHeight, sheetWidth, sheetHeight,
                                    lateralMargin, gutter, tail, grip)
    /\ displayLayout = NoLayout
    /\ isDirty = TRUE
    /\ currentLayoutKey = "optimal"

NextCompute ==
    \/ handleCalculate
    \/ handleInvert
    \/ handleRevert

SpecCompute == InitCompute /\ [][NextCompute]_vars

---------------------------------------------------------------------------
(* The request of the current state: the eight texts after coercion       *)

reqCW == Coerce(cutWidth)
reqCH == Coerce(cutHeight)
reqSW == Coerce(sheetWidth)
reqSH == Coerce(sheetHeight)
reqLM == Coerce(lateralMargin)
reqGT == Coerce(gutter)
reqTail == Coerce(tail)
reqGrip == Coerce(grip)

(* The usable area of the current request. *)
reqUsableW == effectiveW(reqSW, reqLM)
reqUsableH == effectiveH(reqSH, reqTail, reqGrip)

(* Calculate has run on the current request and nothing was edited since. *)
Calculated == ~isDirty /\ displayLayout # NoLayout

DimensionsPositive == reqCW > 0 /\ reqCH > 0 /\ reqSW > 0 /\ reqSH > 0

---------------------------------------------------------------------------
(* Validation                                                             *)

(* C1: the result carries the InvalidDimensions error if and only if at   *)
(* least one of piece width, piece height, sheet width, sheet height is   *)
(* <= 0 after clamping; the check comes first, so a request that also     *)
(* has oversized margins still gets InvalidDimensions.                    *)
C1_InvalidDimensionsIff ==
    (rawLayout.error = ErrDimensions)
        <=> (reqCW <= 0 \/ reqCH <= 0 \/ reqSW <= 0 \/ reqSH <= 0)

(* A calculated request with a zero dimension whose margins are also too  *)
(* large: the display shows InvalidDimensions.                            *)
C1_Witness ==
    /\ Calculated
    /\ reqSW <= 0
    /\ reqCW > 0 /\ reqCH > 0 /\ reqSH > 0
    /\ 2 * reqLM >= reqSW
    /\ displayLayout.error = ErrDimensions

(* C2: when the four dimensions are all > 0, the result carries the       *)
(* MarginsExceedSheet error if and only if leading + trailing clearance   *)
(* >= sheet height or 2 * lateral margin >= sheet width (the sum being    *)
(* the program's floating-point sum); otherwise it carries no error.      *)
C2_MarginsExceedSheetIff ==
    DimensionsPositive =>
        IF Round(reqTail + reqGrip) >= reqSH \/ 2 * reqLM >= reqSW
        THEN rawLayout.error = ErrMargins
        ELSE rawLayout.error = NULL

(* A calculated request whose clearances add up to exactly the sheet      *)
(* height, with a lateral margin that leaves room: MarginsExceedSheet.    *)
C2_Witness ==
    /\ Calculated
    /\ DimensionsPositive
    /\ reqTail + reqGrip = reqSH
    /\ 2 * reqLM < reqSW
    /\ displayLayout.error = ErrMargins

---------------------------------------------------------------------------
(* The two candidates and the optimal one                                 *)

(* C3: for a valid request the optimal candidate is Normal (A) exactly    *)
(* when Normal.total >= Rotated.total and Rotated (B) otherwise; a tie    *)
(* goes to Normal, and the optimal total is never the smaller one.        *)
C3_OptimalSelection ==
    rawLayout.error = NULL =>
        /\ rawLayout.optimalKey = "A"
               <=> rawLayout.layoutA.total >= rawLayout.layoutB.total
        /\ rawLayout.optimalKey = "B"
               <=> rawLayout.layoutA.total < rawLayout.layoutB.total
        /\ rawLayout.layoutA.total = rawLayout.layoutB.total
               => rawLayout.optimalKey = "A"
        /\ rawLayout.optimalKey = "A"
               => rawLayout.layoutA.total >= rawLayout.layoutB.total
        /\ rawLayout.optimalKey = "B"
               => rawLayout.layoutB.total >= rawLayout.layoutA.total

(* A calculated square piece: both totals are equal and positive, and the *)
(* display shows the Normal candidate.                                    *)
C3_Witness ==
    /\ Calculated
    /\ currentLayoutKey = "optimal"
    /\ rawLayout.error = NULL
    /\ reqCW = reqCH
    /\ rawLayout.layoutA.total = rawLayout.layoutB.total
    /\ rawLayout.layoutA.total > 0
    /\ rawLayout.optimalKey = "A"
    /\ displayLayout.rotated = FALSE

(* n is the largest count of pieces of length P, separated by gutters G,  *)
(* that fits in the length L: n pieces with n-1 gutters fit, n+1 pieces   *)
(* with n gutters do not.                                                 *)
IsMaximalFit(n, L, P, G) ==
    /\ n >= 0
    /\ n * P + (n - 1) * G <= L
    /\ (n + 1) * P + n * G > L

(* C4: for a valid request, the columns and the rows of each candidate    *)
(* are the largest counts of the effective piece width and height that    *)
(* fit, with gutters between them, in the usable width and height.        *)
C4_MaximalFit ==
    rawLayout.error = NULL =>
        /\ IsMaximalFit(rawLayout.layoutA.fitW, reqUsableW, reqCW, reqGT)
        /\ IsMaximalFit(rawLayout.layoutA.fitH, reqUsableH, reqCH, reqGT)
        /\ IsMaximalFit(rawLayout.layoutB.fitW, reqUsableW, reqCH, reqGT)
        /\ IsMaximalFit(rawLayout.layoutB.fitH, reqUsableH, reqCW, reqGT)

(* The fit n the code returned is right when the length L is exactly N    *)
(* pieces P and N-1 gutters G, for some N of 1..MaxFitN.                  *)
ExactFitCounted(n, L, P, G) ==
    \A N \in 1..MaxFitN : (P > 0 /\ L = N * P + (N - 1) * G) => n = N

(* C5: when the usable length is exactly N pieces and N-1 gutters, the    *)
(* fit is N, not N-1.                                                     *)
C5_ExactFit ==
    rawLayout.error = NULL =>
        /\ ExactFitCounted(rawLayout.layoutA.fitW, reqUsableW, reqCW, reqGT)
        /\ ExactFitCounted(rawLayout.layoutA.fitH, reqUsableH, reqCH, reqGT)
        /\ ExactFitCounted(rawLayout.layoutB.fitW, reqUsableW, reqCH, reqGT)
        /\ ExactFitCounted(rawLayout.layoutB.fitH, reqUsableH, reqCW, reqGT)

(* C6: a request that differs from the current valid one only by a        *)
(* larger gutter has, in both candidates, no more columns and no more     *)
(* rows.                                                                  *)
C6_GutterMonotone ==
    rawLayout.error = NULL =>
        \A g2 \in GutterTexts :
            Coerce(g2) >= reqGT =>
                LET wider == computeRawLayout(cutWidth, cutHeight, sheetWidth,
                                              sheetHeight, lateralMargin, g2,
                                              tail, grip)
                IN  /\ wider.error = NULL
                    /\ wider.layoutA.fitW <= rawLayout.layoutA.fitW
                    /\ wider.layoutA.fitH <= rawLayout.layoutA.fitH
                    /\ wider.layoutB.fitW <= rawLayout.layoutB.fitW
                    /\ wider.layoutB.fitH <= rawLayout.layoutB.fitH

(* C7: a valid result holds both candidates: Normal, not rotated, with    *)
(* the piece as given, columns = fit(sheetWidth - 2*lateralMargin,        *)
(* pieceWidth, gutter), rows = fit(sheetHeight - leading - trailing,      *)
(* pieceHeight, gutter); Rotated, rotated, with the piece's width and     *)
(* height exchanged in all three places.                                  *)
C7_BothCandidates ==
    rawLayout.error = NULL =>
        LET usableWidth == Round(reqSW - 2 * reqLM)
            usableHeight == Round(Round(reqSH - reqTail) - reqGrip)
        IN  /\ HasField(rawLayout, "layoutA") /\ HasField(rawLayout, "layoutB")
            /\ rawLayout.layoutA.rotated = FALSE
            /\ rawLayout.layoutA.cutW = reqCW
            /\ rawLayout.layoutA.cutH = reqCH
            /\ rawLayout.layoutA.fitW = calculateFit(usableWidth, reqCW, reqGT)
            /\ rawLayout.layoutA.fitH = calculateFit(usableHeight, reqCH, reqGT)
            /\ rawLayout.layoutB.rotated = TRUE
            /\ rawLayout.layoutB.cutW = reqCH
            /\ rawLayout.layoutB.cutH = reqCW
            /\ rawLayout.layoutB.fitW = calculateFit(usableWidth, reqCH, reqGT)
            /\ rawLayout.layoutB.fitH = calculateFit(usableHeight, reqCW, reqGT)

(* The default request (piece 8.5 x 11 on a 17 x 22 sheet, margins 0.375, *)
(* 0.125, 0.375, 0.5), calculated: usable area 16.25 x 21.125, Normal     *)
(* 1 x 1, Rotated 1 x 2, and Rotated is the one displayed.                *)
C7_Witness ==
    /\ Calculated
    /\ currentLayoutKey = "optimal"
    /\ reqCW = 68 /\ reqCH = 88 /\ reqSW = 136 /\ reqSH = 176
    /\ reqLM = 3 /\ reqGT = 1 /\ reqTail = 3 /\ reqGrip = 4
    /\ reqUsableW = 130 /\ reqUsableH = 169
    /\ rawLayout.layoutA.fitW = 1 /\ rawLayout.layoutA.fitH = 1
    /\ rawLayout.layoutB.fitW = 1 /\ rawLayout.layoutB.fitH = 2
    /\ rawLayout.optimalKey = "B"
    /\ displayLayout.rotated = TRUE /\ displayLayout.total = 2

(* C8: a failed validation returns a value that carries the error, no     *)
(* candidate and no optimal key, and echoes the clamped sheet width,      *)
(* sheet height, lateral margin, gutter and both clearances; Calculate    *)
(* then displays total, columns and rows all 0.                           *)
C8_ErrorResult ==
    rawLayout.error # NULL =>
        /\ rawLayout.error \in {ErrDimensions, ErrMargins}
        /\ ~HasField(rawLayout, "layoutA")
        /\ ~HasField(rawLayout, "layoutB")
        /\ rawLayout.optimalKey = NULL
        /\ rawLayout.sheetW = reqSW
        /\ rawLayout.sheetH = reqSH
        /\ rawLayout.lateralMargin = reqLM
        /\ rawLayout.gutter = reqGT
        /\ rawLayout.grip = reqGrip
        /\ rawLayout.tail = reqTail
        /\ Calculated =>
               /\ displayLayout.total = 0
               /\ displayLayout.fitW = 0
               /\ displayLayout.fitH = 0
               /\ displayLayout.error = rawLayout.error
               /\ Echo(displayLayout) = Echo(rawLayout)

(* A calculated request rejected for its margins, whose raw texts needed  *)
(* clamping nowhere and whose grip and tail differ: the display shows 0   *)
(* pieces and the echoed values.                                          *)
C8_Witness ==
    /\ Calculated
    /\ rawLayout.error = ErrMargins
    /\ displayLayout.total = 0
    /\ displayLayout.grip = 4 /\ displayLayout.tail = 3
    /\ displayLayout.gutter = 52 /\ displayLayout.lateralMargin = 68

---------------------------------------------------------------------------
(* Switching between the two candidates                                   *)

(* C9: after Calculate on a valid request and with no edit since,         *)
(* whenever the alternate candidate is displayed a rendered control       *)
(* (Invert or Revert) brings the optimal candidate back.                  *)
C9_CanToggleBack ==
    (~isDirty /\ currentLayoutKey = "inverted") => OrientationButtonsRendered

(* What the display holds when it shows candidate key of the current      *)
(* request's result.                                                      *)
ExpectedDisplay(key) ==
    [sheetW |-> reqSW, sheetH |-> reqSH, grip |-> reqGrip,
     lateralMargin |-> reqLM, gutter |-> reqGT, tail |-> reqTail,
     error |-> NULL]
        @@ (IF key = "A" THEN rawLayout.layoutA ELSE rawLayout.layoutB)

OtherKey(key) == IF key = "A" THEN "B" ELSE "A"

(* With no edit since Calculate on a valid request: under the key         *)
(* 'optimal' the display is the optimal candidate, under 'inverted' the   *)
(* other one.                                                             *)
C10_DisplayFollowsKey ==
    (~isDirty /\ rawLayout.error = NULL) =>
        /\ currentLayoutKey \in {"optimal", "inverted"}
        /\ currentLayoutKey = "optimal"
               => displayLayout = ExpectedDisplay(rawLayout.optimalKey)
        /\ currentLayoutKey = "inverted"
               => displayLayout = ExpectedDisplay(OtherKey(rawLayout.optimalKey))

(* A step of a handler (no text changes): rawLayout is not recomputed;    *)
(* Calculate leaves the key 'optimal'; with no edit since Calculate, the  *)
(* next handler step from 'optimal' is an Invert to 'inverted', and the   *)
(* next one from 'inverted' (Invert or Revert) goes back to 'optimal'.    *)
C10_HandlerStep ==
    inputs' = inputs =>
        /\ rawLayout' = rawLayout
        /\ (isDirty /\ ~isDirty') => currentLayoutKey' = "optimal"
        /\ (~isDirty /\ currentLayoutKey = "optimal")
               => (~isDirty' /\ currentLayoutKey' = "inverted")
        /\ (~isDirty /\ currentLayoutKey = "inverted")
               => (~isDirty' /\ currentLayoutKey' = "optimal")

(* C10: with no input edit in between, Calculate displays the optimal     *)
(* candidate under the key 'optimal', Invert then the other candidate     *)
(* under 'inverted', and a following Invert or Revert the optimal         *)
(* candidate under 'optimal' again, exactly as Calculate displayed it;    *)
(* none of the three handlers recomputes rawLayout.                       *)
C10_ToggleRoundTrip ==
    []C10_DisplayFollowsKey /\ [][C10_HandlerStep]_vars

(* The alternate candidate of a calculated request on display, with a     *)
(* positive total, so that both Invert and Revert can be pressed.         *)
C10_Witness ==
    /\ ~isDirty
    /\ rawLayout.error = NULL
    /\ currentLayoutKey = "inverted"
    /\ displayLayout = ExpectedDisplay(OtherKey(rawLayout.optimalKey))
    /\ displayLayout # ExpectedDisplay(rawLayout.optimalKey)
    /\ OrientationButtonsRendered

---------------------------------------------------------------------------
(* Totals                                                                 *)

(* C11: for a valid request, the total of each of the two candidates is   *)
(* its columns times its rows.                                            *)
C11_TotalIsColumnsTimesRows ==
    rawLayout.error = NULL =>
        /\ rawLayout.layoutA.total
               = rawLayout.layoutA.fitW * rawLayout.layoutA.fitH
        /\ rawLayout.layoutB.total
               = rawLayout.layoutB.fitW * rawLayout.layoutB.fitH

(* A calculated valid request whose Normal candidate has several columns  *)
(* and several rows, and whose two candidates have different totals.      *)
C11_Witness ==
    /\ Calculated
    /\ rawLayout.error = NULL
    /\ rawLayout.layoutA.fitW > 1
    /\ rawLayout.layoutA.fitH > 1
    /\ rawLayout.layoutA.total > rawLayout.layoutA.fitW + rawLayout.layoutA.fitH
    /\ rawLayout.layoutA.total # rawLayout.layoutB.total
    /\ displayLayout.total = displayLayout.fitW * displayLayout.fitH

---------------------------------------------------------------------------
(* Coercion of the raw inputs                                             *)

(* A text that is not a number, or a negative numeral. *)
IsUnusable(s) == ~s.numeric \/ s.v < 0

(* The text with "0" in place of an unusable one. *)
Zeroed(s) == IF IsUnusable(s) THEN Num(0) ELSE s

(* The value a text is coerced to: max(0, parsed value), an unusable text *)
(* counting as 0.                                                         *)
CoercedAsStated(s) ==
    IF IsUnusable(s) THEN 0
    ELSE IF Round(s.v) >= 0 THEN Round(s.v) ELSE 0

(* C12: every raw input is coerced to max(0, parsed value), and writing   *)
(* 0 in place of a non-numeric or negative raw input, in any one field or *)
(* in all of them, yields the identical result.                           *)
C12_UnusableInputIsZero ==
    /\ reqCW = CoercedAsStated(cutWidth)
    /\ reqCH = CoercedAsStated(cutHeight)
    /\ reqSW = CoercedAsStated(sheetWidth)
    /\ reqSH = CoercedAsStated(sheetHeight)
    /\ reqLM = CoercedAsStated(lateralMargin)
    /\ reqGT = CoercedAsStated(gutter)
    /\ reqTail = CoercedAsStated(tail)
    /\ reqGrip = CoercedAsStated(grip)
    /\ rawLayout = computeRawLayout(Zeroed(cutWidth), cutHeight, sheetWidth,
                       sheetHeight, lateralMargin, gutter, tail, grip)
    /\ rawLayout = computeRawLayout(cutWidth, Zeroed(cutHeight), sheetWidth,
                       sheetHeight, lateralMargin, gutter, tail, grip)
    /\ rawLayout = computeRawLayout(cutWidth, cutHeight, Zeroed(sheetWidth),
                       sheetHeight, lateralMargin, gutter, tail, grip)
    /\ rawLayout = computeRawLayout(cutWidth, cutHeight, sheetWidth,
                       Zeroed(sheetHeight), lateralMargin, gutter, tail, grip)
    /\ rawLayout = computeRawLayout(cutWidth, cutHeight, sheetWidth,
                       sheetHeight, Zeroed(lateralMargin), gutter, tail, grip)
    /\ rawLayout = computeRawLayout(cutWidth, cutHeight, sheetWidth,
                       sheetHeight, lateralMargin, Zeroed(gutter), tail, grip)
    /\ rawLayout = computeRawLayout(cutWidth, cutHeight, sheetWidth,
                       sheetHeight, lateralMargin, gutter, Zeroed(tail), grip)
    /\ rawLayout = computeRawLayout(cutWidth, cutHeight, sheetWidth,
                       sheetHeight, lateralMargin, gutter, tail, Zeroed(grip))
    /\ rawLayout = computeRawLayout(Zeroed(cutWidth), Zeroed(cutHeight),
                       Zeroed(sheetWidth), Zeroed(sheetHeight),
                       Zeroed(lateralMargin), Zeroed(gutter),
                       Zeroed(tail), Zeroed(grip))

(* A calculated valid request whose lateral margin and grip are negative  *)
(* and whose gutter and tail are not numbers: all four are displayed as 0.*)
C12_Witness ==
    /\ Calculated
    /\ rawLayout.error = NULL
    /\ lateralMargin.numeric /\ lateralMargin.v < 0
    /\ grip.numeric /\ grip.v < 0
    /\ ~gutter.numeric
    /\ ~tail.numeric
    /\ displayLayout.lateralMargin = 0 /\ displayLayout.grip = 0
    /\ displayLayout.gutter = 0 /\ displayLayout.tail = 0
    /\ displayLayout.total > 0

---------------------------------------------------------------------------
(* The display after any sequence of edits and handler steps              *)

(* The display d is one of the two candidates of the valid computation    *)
(* whose sheet, margins and gutter it echoes.                             *)
IsCandidateDisplay(d) ==
    /\ d.error = NULL
    /\ HasField(d, "rotated") /\ HasField(d, "cutW") /\ HasField(d, "cutH")
    /\ d.cutW > 0 /\ d.cutH > 0 /\ d.sheetW > 0 /\ d.sheetH > 0
    /\ ~marginsTooLarge(d.sheetW, d.sheetH, d.lateralMargin, d.tail, d.grip)
    /\ d.fitW = calculateFit(effectiveW(d.sheetW, d.lateralMargin),
                             d.cutW, d.gutter)
    /\ d.fitH = calculateFit(effectiveH(d.sheetH, d.tail, d.grip),
                             d.cutH, d.gutter)

(* C13: whatever was edited and pressed, a displayed layout has a total,  *)
(* columns and rows with total = columns * rows, and is either an error   *)
(* display with all three 0 or one candidate of a valid computation.      *)
C13_DisplayWellFormed ==
    displayLayout # NoLayout =>
        /\ HasField(displayLayout, "total")
        /\ HasField(displayLayout, "fitW")
        /\ HasField(displayLayout, "fitH")
        /\ displayLayout.total = displayLayout.fitW * displayLayout.fitH
        /\ \/ /\ displayLayout.error # NULL
              /\ displayLayout.total = 0
              /\ displayLayout.fitW = 0
              /\ displayLayout.fitH = 0
           \/ IsCandidateDisplay(displayLayout)

(* A step of Invert or Revert (no text changes and isDirty keeps its      *)
(* value, which Calculate would clear) leaves the displayed sheet width,  *)
(* sheet height, lateral margin, gutter, grip, tail and error as they     *)
(* were.                                                                  *)
C14_InvertRevertStep ==
    (inputs' = inputs /\ isDirty' = isDirty /\ displayLayout # NoLayout)
        => Echo(displayLayout') = Echo(displayLayout)

(* C14: only Calculate brings edited inputs onto the display: Invert and  *)
(* Revert change the candidate shown and leave the displayed sheet,       *)
(* margins, gutter, clearances and error as the last Calculate set them,  *)
(* also when inputs were edited since.                                    *)
C14_OnlyCalculateUpdatesEcho == [][C14_InvertRevertStep]_vars

=============================================================================
